---- MODULE Spec2Model ----
(***************************************************************************)
(* A state-machine model of generate.py, the static web generator.         *)
(*                                                                         *)
(* The state is the part of the filesystem the program writes (the site    *)
(* directory: its directories and its files with their contents), the      *)
(* descriptor read by load_yaml, the position of the single thread of      *)
(* control in generate_web and in the loops of make_copy and               *)
(* generate_blog, and the process's exit status and standard output.       *)
(*                                                                         *)
(* Everything the program only reads (the descriptor file, the templates,  *)
(* the copy sources, the post content) lies outside the site directory and *)
(* does not change while the program runs.  Whether such a resource is     *)
(* there is decided the first time the program asks for it and the answer  *)
(* is remembered in `seen', so every later access, in this run or the      *)
(* next, gets the same answer.                                             *)
(***************************************************************************)
EXTENDS Integers, Sequences, FiniteSets, TLC

(***************************************************************************)
(* Bounds of the model.                                                    *)
(***************************************************************************)
MaxPosts == 2      \* longest blog.posts list
MaxCopy == 2       \* longest copy.files list
MaxRuns == 2       \* runs of the program on the same descriptor

(***************************************************************************)
(* Paths are sequences of path segments.                                   *)
(***************************************************************************)
join(a, b) == a \o b

\* os.path.split: <<head, tail>>
split(p) == <<SubSeq(p, 1, Len(p) - 1), p[Len(p)]>>

Ancestors(p) == {SubSeq(p, 1, n) : n \in 1..Len(p)}

(***************************************************************************)
(* The descriptors the model runs the program on.                          *)
(***************************************************************************)
SiteDirectory == <<"site">>
TemplatesDirectory == <<"templates">>
ContentDirectory == <<"content">>
BaseUrl == "https://example.org"
IndexTemplate == "index.html"
PostTemplate == "post.html"

\* copy.files entries: <<source, relative destination>>
CopyPairs ==
    { <<<<"assets", "a.css">>, <<"css", "main.css">>>>,
      <<<<"assets", "b.css">>, <<"index.html">>>>,
      <<<<"assets", "b.css">>, <<"posts", "p1", "index.html">>>>,
      <<<<"assets", "a.css">>, <<"css">>>> }

\* blog.posts entries.  hasUrl is "'url' in post"; an entry without an
\* artefacts key has artefacts = <<>>.
PostEntries ==
    { [hasUrl |-> TRUE, id |-> "p1", directory |-> "d1",
       artefacts |-> << <<"img.png">> >>],
      [hasUrl |-> FALSE, id |-> "p1", directory |-> "d1",
       artefacts |-> << <<"img.png">> >>],
      [hasUrl |-> FALSE, id |-> "p2", directory |-> "d2",
       artefacts |-> << >>],
      [hasUrl |-> FALSE, id |-> "p1", directory |-> "d2",
       artefacts |-> << <<"index.html">> >>] }

SeqsUpTo(S, n) == UNION {[1..m -> S] : m \in 0..n}

Descriptors ==
    { [site_directory |-> SiteDirectory,
       templates_directory |-> TemplatesDirectory,
       base_url |-> BaseUrl,
       index_template |-> IndexTemplate,
       copy_files |-> f,
       post_template |-> PostTemplate,
       posts_content_directory |-> ContentDirectory,
       posts |-> p] :
       f \in SeqsUpTo(CopyPairs, MaxCopy), p \in SeqsUpTo(PostEntries, MaxPosts) }

(***************************************************************************)
(* File contents.                                                          *)
(***************************************************************************)
\* the bytes of a file outside the site directory
Bytes(path) == [kind |-> "bytes", of |-> path]

\* markdown(): Markdown source to an HTML fragment
markdown(md) == [kind |-> "html", of |-> md]

\* template.stream(**bindings): the rendering of a template
Render(template, bindings) ==
    [kind |-> "rendering", template |-> template, bindings |-> bindings]

\* what dump leaves when rendering raises after the file was opened
Truncated == [kind |-> "truncated"]

VARIABLES
    descriptor,     \* what the descriptor file holds
    seen,           \* resources outside the site asked for so far: is it there
    pc,             \* position of the thread of control
    run,            \* number of the current run
    loaded,         \* the descriptor load_yaml returned
    templates,      \* template names resolved by get_template in this run
    k,              \* make_copy: index of the current copy pair
    i,              \* generate_blog: index of the current post
    j,              \* generate_blog: index of the current artefact
    md,             \* generate_blog: post_content_md
    dirs,           \* directories of the site tree
    files,          \* files of the site tree: path -> contents
    status,         \* exit status of the process, -1 while it runs
    stdout,         \* what the program printed
    err,            \* where the run raised, and what
    log,            \* filesystem accesses of the current run, in order
    snap            \* the site tree at the end of the previous run

vars == <<descriptor, seen, pc, run, loaded, templates, k, i, j, md, dirs,
          files, status, stdout, err, log, snap>>

NoDescriptor == [kind |-> "none"]
NoContent == [kind |-> "none"]
NoSnap == [kind |-> "none"]
NoError == [at |-> "none", what |-> "none"]

\* a resource outside the site answers as it did before, if it was asked
Outcomes(key) == IF key \in DOMAIN seen THEN {seen[key]} ELSE BOOLEAN

Remember(key, ok) == [x \in DOMAIN seen \cup {key} |-> IF x = key THEN ok ELSE seen[x]]

Entry(phase, op, n, path) == [phase |-> phase, op |-> op, entry |-> n, path |-> path]

Init ==
    /\ descriptor \in Descriptors
    /\ seen = << >>
    /\ pc = "load"
    /\ run = 1
    /\ loaded = NoDescriptor
    /\ templates = {}
    /\ k = 1
    /\ i = 1
    /\ j = 1
    /\ md = NoContent
    /\ dirs = {}
    /\ files = << >>
    /\ status = -1
    /\ stdout = << >>
    /\ err = NoError
    /\ log = << >>
    /\ snap = NoSnap

\* an uncaught exception: traceback, exit status 1
Raise(what) ==
    /\ pc' = "failed"
    /\ status' = 1
    /\ err' = [at |-> pc, what |-> what]

(***************************************************************************)
(* load_yaml(path), called from __main__.                                  *)
(***************************************************************************)
LoadFailureStatusZero == 1 - 1

\* exit(1)
LoadFailureStatus == 1

load_yaml ==
    /\ pc = "load"
    /\ \E ok \in Outcomes(<<"descriptor">>) :
        /\ seen' = Remember(<<"descriptor">>, ok)
        /\ IF ok
           THEN /\ loaded' = descriptor
                /\ pc' = "site"
                /\ UNCHANGED <<status, stdout, err>>
           ELSE \* except Exception as e: print(e); exit(1)
                /\ stdout' = Append(stdout, "error")
                /\ status' = LoadFailureStatus
                /\ pc' = "exited"
                /\ err' = [at |-> pc, what |-> "load_yaml"]
                /\ UNCHANGED loaded
    /\ UNCHANGED <<descriptor, run, templates, k, i, j, md, dirs, files, log, snap>>

(***************************************************************************)
(* generate_web: if not exists(site_directory): mkdir(site_directory)      *)
(***************************************************************************)
SiteExistsNever == FALSE

\* exists(descriptor['site_directory'])
SiteExists == loaded.site_directory \in dirs

ensure_site_directory ==
    /\ pc = "site"
    /\ IF SiteExists
       THEN /\ pc' = "index_template"
            /\ UNCHANGED <<seen, dirs, status, err, log>>
       ELSE \E ok \in Outcomes(<<"parent">>) :
            /\ seen' = Remember(<<"parent">>, ok)
            \* mkdir raises when the directory exists or its parent is missing
            /\ IF ok /\ loaded.site_directory \notin dirs
               THEN /\ dirs' = dirs \cup {loaded.site_directory}
                    /\ log' = Append(log, Entry("site", "mkdir", 0, loaded.site_directory))
                    /\ pc' = "index_template"
                    /\ UNCHANGED <<status, err>>
               ELSE /\ Raise("mkdir")
                    /\ UNCHANGED <<dirs, log>>
    /\ UNCHANGED <<descriptor, run, loaded, templates, k, i, j, md, files, stdout, snap>>

\* template_environment.get_template(name)
get_template(name, next) ==
    \E ok \in Outcomes(<<"template", name>>) :
        /\ seen' = Remember(<<"template", name>>, ok)
        /\ IF ok
           THEN /\ templates' = templates \cup {name}
                /\ pc' = next
                /\ UNCHANGED <<status, err>>
           ELSE /\ Raise("get_template")
                /\ UNCHANGED templates

get_index_template ==
    /\ pc = "index_template"
    /\ get_template(loaded.index_template, "index")
    /\ UNCHANGED <<descriptor, run, loaded, k, i, j, md, dirs, files, stdout, log, snap>>

(***************************************************************************)
(* Filesystem operations on the site tree, as functions of the tree.       *)
(***************************************************************************)
\* open(path, 'wb') succeeds
CanOpenForWrite(ds, path) == path \notin ds /\ split(path)[1] \in ds

Write(fs, path, content) == [p \in DOMAIN fs \cup {path} |->
                                IF p = path THEN content ELSE fs[p]]

\* makedirs(directory, exist_ok=True) raises when a segment is a file
MakedirsOk(directory) == Ancestors(directory) \cap DOMAIN files = {}

Makedirs(directory) == dirs \cup Ancestors(directory)

\* shutil.copy(src, dst): into dst when dst is a directory
CopyTarget(ds, src, dst) == IF dst \in ds THEN join(dst, <<split(src)[2]>>) ELSE dst

\* directory, _ = split(dst); makedirs(directory, exist_ok=True); copy(src, dst)
makedirs_copy(phase, n, src, dst, next) ==
    LET directory == split(dst)[1] IN
    IF ~MakedirsOk(directory)
    THEN /\ Raise("makedirs")
         /\ UNCHANGED <<seen, dirs, files, log>>
    ELSE LET ds == Makedirs(directory)
             target == CopyTarget(ds, src, dst)
         IN /\ dirs' = ds
            /\ \E ok \in Outcomes(src) :
                /\ seen' = Remember(src, ok)
                /\ IF ok /\ CanOpenForWrite(ds, target)
                   THEN /\ files' = Write(files, target, Bytes(src))
                        /\ log' = log \o <<Entry(phase, "makedirs", n, directory),
                                           Entry(phase, "read", n, src),
                                           Entry(phase, "write", n, target)>>
                        /\ pc' = next
                        /\ UNCHANGED <<status, err>>
                   ELSE /\ Raise("copy")
                        /\ log' = Append(log, Entry(phase, "makedirs", n, directory))
                        /\ UNCHANGED files

\* template.stream(**bindings).dump(path): open the file, then render into it
dump(phase, n, path, template, bindings, key, next) ==
    IF ~CanOpenForWrite(dirs, path)
    THEN /\ Raise("dump")
         /\ UNCHANGED <<seen, files, log>>
    ELSE \E ok \in Outcomes(key) :
         /\ seen' = Remember(key, ok)
         /\ log' = Append(log, Entry(phase, "write", n, path))
         /\ IF ok
            THEN /\ files' = Write(files, path, Render(template, bindings))
                 /\ pc' = next
                 /\ UNCHANGED <<status, err>>
            ELSE /\ files' = Write(files, path, Truncated)
                 /\ Raise("render")

(***************************************************************************)
(* generate_index(context)                                                 *)
(***************************************************************************)
IndexPath == join(loaded.site_directory, <<"index.html">>)

IsLocalEntry(post) == ~post.hasUrl

IndexBindingsLocalOnly == [posts |-> SelectSeq(loaded.posts, IsLocalEntry)]

\* posts=context.posts
IndexBindings == [posts |-> loaded.posts]

AfterIndexBlog == "post_template"

\* generate_web: make_copy(copy_context) follows generate_index(index_context)
AfterIndex == "copy"

generate_index ==
    /\ pc = "index"
    /\ dump("index", 0, IndexPath, loaded.index_template, IndexBindings,
            <<"render", "index">>, AfterIndex)
    /\ k' = 1
    /\ UNCHANGED <<descriptor, run, loaded, templates, i, j, md, dirs, stdout, snap>>

(***************************************************************************)
(* make_copy(context): one iteration of the loop over context.files        *)
(***************************************************************************)
CopySrcFirst(n) == loaded.copy_files[1][1]

CopySrc(n) == loaded.copy_files[n][1]

CopyDst(n) == join(loaded.site_directory, loaded.copy_files[n][2])

make_copy ==
    /\ pc = "copy"
    /\ k <= Len(loaded.copy_files)
    /\ makedirs_copy("copy", k, CopySrc(k), CopyDst(k), "copy")
    /\ k' = IF pc' = "failed" THEN k ELSE k + 1
    /\ UNCHANGED <<descriptor, run, loaded, templates, i, j, md, stdout, snap>>

\* the loop is exhausted: make_copy returns
AfterCopyBlog == "blog"

\* generate_web: get_template(post_template) follows make_copy(copy_context)
AfterCopy == "post_template"

make_copy_return ==
    /\ pc = "copy"
    /\ k > Len(loaded.copy_files)
    /\ pc' = AfterCopy
    /\ UNCHANGED <<descriptor, seen, run, loaded, templates, k, i, j, md, dirs,
                   files, status, stdout, err, log, snap>>

get_post_template ==
    /\ pc = "post_template"
    /\ get_template(loaded.post_template, "blog")
    /\ i' = 1
    /\ UNCHANGED <<descriptor, run, loaded, k, j, md, dirs, files, stdout, log, snap>>

(***************************************************************************)
(* generate_blog(context): the loop over context.posts_descriptor          *)
(***************************************************************************)
Post(n) == loaded.posts[n]

PostContentDirectory(post) == join(loaded.posts_content_directory, <<post.directory>>)

PostContentFile(post) == join(PostContentDirectory(post), <<"README.md">>)

PostDirectory(post) == join(loaded.site_directory, <<"posts", post.id>>)

PostHtmlPath(post) == join(PostDirectory(post), <<"index.html">>)

PostUrlFromDirectory(post) ==
    <<loaded.base_url, "/posts/", post.directory, "/index.html">>

\* context.base_url + "/posts/" + post_id + "/index.html"
PostUrl(post) == <<loaded.base_url, "/posts/", post.id, "/index.html">>

PostBindings(post, content) ==
    [post |-> markdown(content), post_id |-> post.id, post_url |-> PostUrl(post)]

SkipPostWithoutArtefacts(post) == post.hasUrl /\ post.artefacts = << >>

\* if 'url' in post: continue
SkipPost(post) == post.hasUrl

generate_blog_skip ==
    /\ pc = "blog"
    /\ i <= Len(loaded.posts)
    /\ SkipPost(Post(i))
    /\ i' = i + 1
    /\ UNCHANGED <<descriptor, seen, pc, run, loaded, templates, k, j, md, dirs,
                   files, status, stdout, err, log, snap>>

AfterMakedirsDump == "blog_dump"

\* generate_blog: open(post_content_file).read() follows makedirs
AfterMakedirs == "blog_read"

\* makedirs(post_directory, exist_ok=True)
generate_blog_makedirs ==
    /\ pc = "blog"
    /\ i <= Len(loaded.posts)
    /\ ~SkipPost(Post(i))
    /\ IF MakedirsOk(PostDirectory(Post(i)))
       THEN /\ dirs' = Makedirs(PostDirectory(Post(i)))
            /\ log' = Append(log, Entry("blog", "makedirs", i, PostDirectory(Post(i))))
            /\ pc' = AfterMakedirs
            /\ UNCHANGED <<status, err>>
       ELSE /\ Raise("makedirs")
            /\ UNCHANGED <<dirs, log>>
    /\ UNCHANGED <<descriptor, seen, run, loaded, templates, k, i, j, md, files,
                   stdout, snap>>

generate_blog_read_lenient ==
    /\ pc = "blog_read"
    /\ \E ok \in Outcomes(PostContentFile(Post(i))) :
        /\ seen' = Remember(PostContentFile(Post(i)), ok)
        /\ IF ok
           THEN /\ md' = Bytes(PostContentFile(Post(i)))
                /\ log' = Append(log, Entry("blog", "read", i, PostContentFile(Post(i))))
                /\ pc' = "blog_dump"
                /\ UNCHANGED i
           ELSE /\ pc' = "blog"
                /\ i' = i + 1
                /\ UNCHANGED <<md, log>>
    /\ UNCHANGED <<descriptor, run, loaded, templates, k, j, dirs, files,
                   status, stdout, err, snap>>

\* post_content_md = open(post_content_file).read()
generate_blog_read ==
    /\ pc = "blog_read"
    /\ \E ok \in Outcomes(PostContentFile(Post(i))) :
        /\ seen' = Remember(PostContentFile(Post(i)), ok)
        /\ IF ok
           THEN /\ md' = Bytes(PostContentFile(Post(i)))
                /\ log' = Append(log, Entry("blog", "read", i, PostContentFile(Post(i))))
                /\ pc' = "blog_dump"
                /\ UNCHANGED <<status, err>>
           ELSE /\ Raise("open")
                /\ UNCHANGED <<md, log>>
    /\ UNCHANGED <<descriptor, run, loaded, templates, k, i, j, dirs, files,
                   stdout, snap>>

\* markdown(...), post_url, post_template.stream(...).dump(post_html_path)
generate_blog_dump ==
    /\ pc = "blog_dump"
    /\ dump("blog", i, PostHtmlPath(Post(i)), loaded.post_template,
            PostBindings(Post(i), md),
            <<"render", "post", Post(i).id, Post(i).directory>>, "blog_artefact")
    /\ j' = 1
    /\ UNCHANGED <<descriptor, run, loaded, templates, k, i, md, dirs, stdout, snap>>

\* one iteration of the loop over post['artefacts']
generate_blog_artefact ==
    /\ pc = "blog_artefact"
    /\ j <= Len(Post(i).artefacts)
    /\ makedirs_copy("artefact", i,
                     join(PostContentDirectory(Post(i)), Post(i).artefacts[j]),
                     join(PostDirectory(Post(i)), Post(i).artefacts[j]),
                     "blog_artefact")
    /\ j' = IF pc' = "failed" THEN j ELSE j + 1
    /\ UNCHANGED <<descriptor, run, loaded, templates, k, i, md, stdout, snap>>

\* no artefacts key, or the artefacts are exhausted: on to the next post
generate_blog_next ==
    /\ pc = "blog_artefact"
    /\ j > Len(Post(i).artefacts)
    /\ i' = i + 1
    /\ pc' = "blog"
    /\ UNCHANGED <<descriptor, seen, run, loaded, templates, k, j, md, dirs,
                   files, status, stdout, err, log, snap>>

\* the posts are exhausted: generate_blog and generate_web return, exit status 0
generate_blog_return ==
    /\ pc = "blog"
    /\ i > Len(loaded.posts)
    /\ pc' = "done"
    /\ status' = 0
    /\ UNCHANGED <<descriptor, seen, run, loaded, templates, k, i, j, md, dirs,
                   files, stdout, err, log, snap>>

(***************************************************************************)
(* The program is started again on the same descriptor, after a run that   *)
(* succeeded, with nothing outside the site directory changed.             *)
(***************************************************************************)
run_again ==
    /\ pc = "done"
    /\ run < MaxRuns
    /\ run' = run + 1
    /\ snap' = [dirs |-> dirs, files |-> files]
    /\ pc' = "load"
    /\ loaded' = NoDescriptor
    /\ templates' = {}
    /\ k' = 1
    /\ i' = 1
    /\ j' = 1
    /\ md' = NoContent
    /\ status' = -1
    /\ stdout' = << >>
    /\ log' = << >>
    /\ err' = NoError
    /\ UNCHANGED <<descriptor, seen, dirs, files>>

Next ==
    \/ load_yaml
    \/ ensure_site_directory
    \/ get_index_template
    \/ generate_index
    \/ make_copy
    \/ make_copy_return
    \/ get_post_template
    \/ generate_blog_skip
    \/ generate_blog_makedirs
    \/ generate_blog_read
    \/ generate_blog_dump
    \/ generate_blog_artefact
    \/ generate_blog_next
    \/ generate_blog_return
    \/ run_again

Spec == Init /\ [][Next]_vars

(***************************************************************************)
(* What the descriptor asks for, stated from the descriptor file alone.    *)
(***************************************************************************)
CopyIdx == 1..Len(descriptor.copy_files)

PostIdx == 1..Len(descriptor.posts)

LogIdx == 1..Len(log)

IsLocal(n) == ~descriptor.posts[n].hasUrl

LocalIdx == {n \in PostIdx : IsLocal(n)}

SitePath(rel) == descriptor.site_directory \o rel

ExpIndexFile == SitePath(<<"index.html">>)

ExpIndexPage == Render(descriptor.index_template, [posts |-> descriptor.posts])

ExpCopySrc(n) == descriptor.copy_files[n][1]

ExpCopyDst(n) == SitePath(descriptor.copy_files[n][2])

ExpPostDir(n) == SitePath(<<"posts", descriptor.posts[n].id>>)

ExpPostFile(n) == ExpPostDir(n) \o <<"index.html">>

ExpReadme(n) ==
    descriptor.posts_content_directory \o <<descriptor.posts[n].directory, "README.md">>

ExpPostPage(n) ==
    Render(descriptor.post_template,
           [post |-> markdown(Bytes(ExpReadme(n))),
            post_id |-> descriptor.posts[n].id,
            post_url |-> <<descriptor.base_url, "/posts/",
                           descriptor.posts[n].id, "/index.html">>])

BlogPhases == {"blog", "artefact"}

\* the program asked for the resource and it was not there
Absent(key) == key \in DOMAIN seen /\ ~seen[key]

\* the run is past generate_index
PastIndex == {"copy", "post_template", "blog", "blog_read", "blog_dump",
              "blog_artefact", "done"}

HasIndexPage == ExpIndexFile \in DOMAIN files /\ files[ExpIndexFile] = ExpIndexPage

NoCopyOntoIndex == \A n \in CopyIdx : ExpCopyDst(n) # ExpIndexFile

Copied(n) == ExpCopyDst(n) \in DOMAIN files /\ files[ExpCopyDst(n)] = Bytes(ExpCopySrc(n))

\* a later copy pair, a post page or an artefact of this run wrote the path
WrittenAfterCopy(n) ==
    \E x \in LogIdx :
        /\ log[x].op = "write"
        /\ log[x].path = ExpCopyDst(n)
        /\ \/ log[x].phase \in BlogPhases
           \/ log[x].phase = "copy" /\ log[x].entry > n

PageOk(n) == ExpPostFile(n) \in DOMAIN files /\ files[ExpPostFile(n)] = ExpPostPage(n)

\* an artefact of this or a later post, or a later post's page, wrote the path
WrittenAfterPage(n) ==
    \E x \in LogIdx :
        /\ log[x].op = "write"
        /\ log[x].path = ExpPostFile(n)
        /\ \/ log[x].phase = "artefact" /\ log[x].entry >= n
           \/ log[x].phase = "blog" /\ log[x].entry > n

(***************************************************************************)
(* C1, as stated: once the run is past generate_index, and so when it has  *)
(* completed, <site>/index.html is the index template's rendering of the   *)
(* whole descriptor post list, whatever make_copy and generate_blog do.    *)
(* The code violates this: a copy pair whose destination is index.html     *)
(* replaces the page.                                                      *)
(***************************************************************************)
C1_IndexNeverReplaced == pc \in PastIndex => HasIndexPage

(***************************************************************************)
(* C1, amended: provided no copy pair has index.html as its destination,   *)
(* once the run is past generate_index <site>/index.html exists and is the *)
(* index template's rendering of the full, unfiltered post list.           *)
(***************************************************************************)
C1_IndexRendered == (pc \in PastIndex /\ NoCopyOntoIndex) => HasIndexPage

C1_Witness ==
    /\ pc = "done"
    /\ NoCopyOntoIndex
    /\ CopyIdx # {}
    /\ \E n \in PostIdx : IsLocal(n)
    /\ \E n \in PostIdx : ~IsLocal(n)
    /\ HasIndexPage

(***************************************************************************)
(* C2, as stated: after a completed run every copy pair's destination      *)
(* holds the contents of its source, whatever the other pairs and posts.   *)
(* The code violates this: a later writer of the same path wins, and a     *)
(* destination that is a directory receives the file inside it.            *)
(***************************************************************************)
C2_EveryPairCopied == pc = "done" => \A n \in CopyIdx : Copied(n)

(***************************************************************************)
(* C2, amended: after a completed run the destination of a copy pair holds *)
(* the contents of its source, at any nesting depth, provided the          *)
(* destination is not a directory and no later copy pair, post page or     *)
(* artefact of the run wrote the same path.                                *)
(***************************************************************************)
C2_PairCopied ==
    pc = "done" =>
        \A n \in CopyIdx :
            (ExpCopyDst(n) \notin dirs /\ ~WrittenAfterCopy(n)) => Copied(n)

C2_Witness ==
    /\ pc = "done"
    /\ Len(descriptor.copy_files) = 2
    /\ LocalIdx # {}
    /\ ExpCopySrc(1) # ExpCopySrc(2)
    /\ \A n \in CopyIdx :
        /\ Len(descriptor.copy_files[n][2]) >= 2
        /\ ExpCopyDst(n) \notin dirs
        /\ ~WrittenAfterCopy(n)
        /\ Copied(n)

(***************************************************************************)
(* C3, as stated: after a completed run every local post has its page      *)
(* posts/<id>/index.html, the post template's rendering of that post with  *)
(* post_url = base_url + "/posts/" + id + "/index.html" and post_id = id.  *)
(* The code violates this: a later local post with the same id, or an      *)
(* artefact named index.html, replaces the page.                           *)
(***************************************************************************)
C3_EveryPostRendered == pc = "done" => \A n \in LocalIdx : PageOk(n)

(***************************************************************************)
(* C3, amended: after a completed run the page of a local post exists and  *)
(* is the post template's rendering of that post, with the stated post_url *)
(* and post_id, provided no artefact of that post or of a later one and no *)
(* later post's page was written to the same path.                         *)
(***************************************************************************)
C3_PostRendered ==
    pc = "done" => \A n \in LocalIdx : ~WrittenAfterPage(n) => PageOk(n)

C3_Witness ==
    /\ pc = "done"
    /\ Cardinality(LocalIdx) = 2
    /\ \A n \in LocalIdx : ~WrittenAfterPage(n) /\ PageOk(n)
    /\ \E n \in LocalIdx : descriptor.posts[n].artefacts # << >>
    /\ \E n, m \in LocalIdx : descriptor.posts[n].id # descriptor.posts[m].id

(***************************************************************************)
(* C4: generate_blog skips an entry that has a url key: no access to the   *)
(* filesystem is made for it, and no directory posts/<id>/ exists for it   *)
(* (unless a local post of the same id or a copy destination put it        *)
(* there), even though the entry carries id, directory and artefacts.      *)
(***************************************************************************)
NothingElseUnder(n) ==
    /\ \A m \in LocalIdx : descriptor.posts[m].id # descriptor.posts[n].id
    /\ \A c \in CopyIdx : ExpPostDir(n) \notin Ancestors(ExpCopyDst(c))

C4_ExternalSkipped ==
    /\ \A x \in LogIdx : log[x].phase \in BlogPhases => IsLocal(log[x].entry)
    /\ \A n \in PostIdx :
        (~IsLocal(n) /\ NothingElseUnder(n)) => ExpPostDir(n) \notin dirs

C4_Witness ==
    /\ pc = "done"
    /\ CopyIdx # {}
    /\ LocalIdx # {}
    /\ \E n \in PostIdx :
        /\ ~IsLocal(n)
        /\ n < Len(descriptor.posts)
        /\ descriptor.posts[n].artefacts # << >>
        /\ NothingElseUnder(n)
        /\ ExpPostDir(n) \notin dirs

(***************************************************************************)
(* C5: a missing README.md of a local post ends the run at the first post *)
(* that needs it, post i, with exit status 1: this run copied no artefact  *)
(* and wrote no page for post i, no later post was touched, the failing    *)
(* step changed no file, everything the run wrote before (index.html, the  *)
(* copied assets, the pages and artefacts of earlier posts) is on disk,    *)
(* and no step follows.                                                    *)
(***************************************************************************)
ReadmeMissing == pc = "failed" /\ err.at = "blog_read"

C5_State ==
    /\ \A n \in LocalIdx :
        Absent(ExpReadme(n)) => (ReadmeMissing /\ ExpReadme(i) = ExpReadme(n))
    /\ ReadmeMissing =>
        /\ status = 1
        /\ \A x \in LogIdx :
            log[x].phase \in BlogPhases =>
                /\ log[x].entry <= i
                /\ log[x].entry = i => log[x].op = "makedirs"
        /\ \A x \in LogIdx : log[x].op = "write" => log[x].path \in DOMAIN files
        /\ \A m \in LocalIdx :
            m < i => /\ \E x \in LogIdx : /\ log[x].phase = "blog"
                                           /\ log[x].op = "write"
                                           /\ log[x].entry = m
                     /\ Cardinality({x \in LogIdx : /\ log[x].phase = "artefact"
                                                    /\ log[x].op = "write"
                                                    /\ log[x].entry = m})
                            = Len(descriptor.posts[m].artefacts)
        /\ ExpIndexFile \in DOMAIN files
        /\ \A n \in CopyIdx : \E x \in LogIdx : /\ log[x].phase = "copy"
                                                 /\ log[x].op = "write"
                                                 /\ log[x].entry = n

C5_Step ==
    /\ pc # "failed"
    /\ (pc = "blog_read" /\ pc' = "failed") => (files' = files /\ log' = log)

C5_ReadmeMissingAborts == [](C5_State) /\ [][C5_Step]_vars

C5_Witness ==
    /\ ReadmeMissing
    /\ CopyIdx # {}
    /\ i = 2
    /\ IsLocal(1)
    /\ descriptor.posts[1].artefacts # << >>
    /\ descriptor.posts[i].artefacts # << >>
    /\ ExpPostFile(1) \in DOMAIN files

(***************************************************************************)
(* C6: generate_web runs index, then copy, then blog: nothing is copied    *)
(* before index.html is written and no post is touched before every copy   *)
(* pair is copied.  When the index or the copy step fails, the blog step   *)
(* has not started, and what was written before is still on disk: a        *)
(* failing copy changes no file and no step ever removes a file.           *)
(***************************************************************************)
PhaseRank(phase) ==
    CASE phase = "site" -> 0
      [] phase = "index" -> 1
      [] phase = "copy" -> 2
      [] phase \in BlogPhases -> 3

C6_State ==
    /\ \A x, y \in LogIdx : x < y => PhaseRank(log[x].phase) <= PhaseRank(log[y].phase)
    /\ (\E x \in LogIdx : log[x].phase = "copy") =>
           (\E x \in LogIdx : log[x].phase = "index" /\ log[x].op = "write")
    /\ (\E x \in LogIdx : log[x].phase \in BlogPhases) =>
           /\ \E x \in LogIdx : log[x].phase = "index" /\ log[x].op = "write"
           /\ \A n \in CopyIdx : \E x \in LogIdx : /\ log[x].phase = "copy"
                                                    /\ log[x].op = "write"
                                                    /\ log[x].entry = n
    /\ (pc = "failed" /\ err.at \in {"index", "copy"}) =>
           /\ \A x \in LogIdx : log[x].phase \notin BlogPhases
           /\ \A x \in LogIdx : log[x].op = "write" => log[x].path \in DOMAIN files

C6_Step ==
    /\ DOMAIN files \subseteq DOMAIN files'
    /\ dirs \subseteq dirs'
    /\ (pc = "copy" /\ pc' = "failed") => files' = files

C6_FixedOrderNoRollback == [](C6_State) /\ [][C6_Step]_vars

C6_Witness ==
    /\ pc = "failed"
    /\ err.at = "copy"
    /\ k = 2
    /\ LocalIdx # {}
    /\ HasIndexPage
    /\ Copied(1)

(***************************************************************************)
(* C7, as stated: both templates are resolved before any generator runs,   *)
(* so a template that cannot be resolved fails the run before anything is  *)
(* written.  The code violates this: the post template is resolved only    *)
(* after generate_index and make_copy have run.                            *)
(***************************************************************************)
Generated == {x \in LogIdx : log[x].phase \in {"index", "copy"} \cup BlogPhases}

C7_BothTemplatesFirst ==
    /\ Generated # {} =>
           {descriptor.index_template, descriptor.post_template} \subseteq templates
    /\ (pc = "failed" /\ err.what = "get_template") => Generated = {}

(***************************************************************************)
(* C7, amended: the index template is resolved before any generator runs:  *)
(* if it cannot be resolved the run fails with nothing generated.  The     *)
(* post template is resolved after generate_index and make_copy and before *)
(* generate_blog: if it cannot be resolved the run fails with index.html   *)
(* written and every copy pair copied, and with no post touched.           *)
(***************************************************************************)
C7_TemplatesBeforeUse ==
    /\ Absent(<<"template", descriptor.index_template>>) =>
           (pc = "failed" /\ err.at = "index_template")
    /\ Absent(<<"template", descriptor.post_template>>) =>
           (pc = "failed" /\ err.at = "post_template")
    /\ Generated # {} => descriptor.index_template \in templates
    /\ (\E x \in LogIdx : log[x].phase \in BlogPhases) =>
           descriptor.post_template \in templates
    /\ (pc = "failed" /\ err.at = "index_template") =>
           /\ Generated = {}
           /\ files = << >>
    /\ (pc = "failed" /\ err.at = "post_template") =>
           /\ \A x \in LogIdx : log[x].phase \notin BlogPhases
           /\ \E x \in LogIdx : log[x].phase = "index" /\ log[x].op = "write"
           /\ ExpIndexFile \in DOMAIN files
           /\ \A n \in CopyIdx : \E x \in LogIdx : /\ log[x].phase = "copy"
                                                    /\ log[x].op = "write"
                                                    /\ log[x].entry = n
                                                    /\ log[x].path \in DOMAIN files

C7_Witness ==
    /\ pc = "failed"
    /\ err.at = "post_template"
    /\ descriptor.index_template \in templates
    /\ CopyIdx # {}
    /\ LocalIdx # {}
    /\ \A n \in CopyIdx : Copied(n)

(***************************************************************************)
(* C8: when the descriptor cannot be opened or parsed, load_yaml prints    *)
(* the error and the process exits with status 1 before generate_web is    *)
(* entered: no directory is made and no file written.  Any other failure   *)
(* is not caught: nothing is printed by the program and the status is 1.   *)
(* generate_web only ever runs on the descriptor that was loaded.          *)
(***************************************************************************)
C8_LoadFailureExits ==
    /\ Absent(<<"descriptor">>) <=> pc = "exited"
    /\ pc = "exited" =>
           /\ status = 1
           /\ stdout = <<"error">>
           /\ err.what = "load_yaml"
           /\ loaded = NoDescriptor
           /\ log = << >>
           /\ dirs = {}
           /\ files = << >>
    /\ pc = "failed" =>
           /\ status \notin {0, -1}
           /\ stdout = << >>
           /\ err.what # "load_yaml"
    /\ pc \notin {"load", "exited"} => loaded = descriptor

C8_Witness ==
    /\ pc = "exited"
    /\ descriptor.copy_files # << >>
    /\ LocalIdx # {}

(***************************************************************************)
(* C9, as stated: for a local post the README.md is read before the        *)
(* directory posts/<id>/ is made, so a missing README.md fails the run     *)
(* without that post having made its directory.  The code violates this:   *)
(* makedirs(post_directory) comes before the README.md is opened.          *)
(***************************************************************************)
BlogOps(n, op) ==
    {x \in LogIdx : log[x].phase = "blog" /\ log[x].entry = n /\ log[x].op = op}

ArtefactOps(n) == {x \in LogIdx : log[x].phase = "artefact" /\ log[x].entry = n}

C9_ReadBeforeMakedirs ==
    /\ \A n \in PostIdx :
        \A x \in BlogOps(n, "makedirs") : \E y \in BlogOps(n, "read") : y < x
    /\ ReadmeMissing => BlogOps(i, "makedirs") = {}

(***************************************************************************)
(* C9, amended: for a local post generate_blog makes the directory         *)
(* posts/<id>/ first, then reads README.md, then writes index.html, then   *)
(* copies the artefacts.  A post whose README.md is absent fails the run   *)
(* after it has made posts/<id>/ and before it has written anything there. *)
(***************************************************************************)
C9_MakedirsBeforeRead ==
    /\ \A n \in PostIdx :
        /\ \A x \in BlogOps(n, "read") : \E y \in BlogOps(n, "makedirs") : y < x
        /\ \A x \in BlogOps(n, "write") : \E y \in BlogOps(n, "read") : y < x
        /\ \A x \in ArtefactOps(n) : \E y \in BlogOps(n, "write") : y < x
    /\ ReadmeMissing =>
        /\ BlogOps(i, "makedirs") # {}
        /\ ExpPostDir(i) \in dirs
        /\ BlogOps(i, "read") = {}
        /\ BlogOps(i, "write") = {}
        /\ ArtefactOps(i) = {}

C9_Witness ==
    /\ ReadmeMissing
    /\ i = 1
    /\ descriptor.copy_files = << >>
    /\ ExpPostDir(i) \in dirs
    /\ ExpPostFile(i) \notin DOMAIN files
    /\ descriptor.posts[i].artefacts # << >>

(***************************************************************************)
(* C10: a run started right after a successful run on the same descriptor, *)
(* with nothing outside the site directory changed, does not fail, and     *)
(* when it completes the site tree has the same directories and the same   *)
(* files with the same contents as after the run before.                   *)
(***************************************************************************)
C10_Idempotent ==
    /\ run > 1 => pc \notin {"failed", "exited"}
    /\ (run > 1 /\ pc = "done") => snap = [dirs |-> dirs, files |-> files]

C10_Witness ==
    /\ run = 2
    /\ pc = "done"
    /\ Len(descriptor.copy_files) = 2
    /\ \E n \in CopyIdx : Len(descriptor.copy_files[n][2]) >= 2
    /\ \E n \in LocalIdx : descriptor.posts[n].artefacts # << >>
    /\ \E n \in PostIdx : ~IsLocal(n)
    /\ snap = [dirs |-> dirs, files |-> files]
====
